---- MODULE Spec2Model ----
(***************************************************************************)
(* Bitcoin sentiment trader analysis: the merge-and-derive pipeline of     *)
(* DataLoader (src/src/data_loader.py), the bucket classification of       *)
(* InsightsGenerator / EDAAnalyzer and the tables of TraderAnalyzer.       *)
(*                                                                         *)
(* A nullable cell (pandas NaN / None) is the empty tuple NaN; a present   *)
(* value v is the one-element tuple <<v>>.  A table is a sequence of rows  *)
(* (records), in row order.                                                *)
(***************************************************************************)
EXTENDS Integers, Sequences, FiniteSets, TLC

VARIABLES historical, sentiment_file, save_output, pc, error,
          btc_df, passed_df, sentiment_df, merged_df, output,
          observed, df, sentiment_groups, range_analysis, insights_df, eda_df,
          has_range, sizing, direction, daily_trades, freq_stats, pnl_stats,
          percentiles, perf, perf_error, pnl_error, insights, insights_error

\* The state of a DataLoader run and of the files it reads and writes
loaderVars == <<historical, sentiment_file, save_output, pc, error,
                btc_df, passed_df, sentiment_df, merged_df, output>>

\* The state of the objects that read the merged dataset
analyzerVars == <<observed, df, sentiment_groups, range_analysis, insights_df, eda_df>>

\* The tables the other methods of TraderAnalyzer and InsightsGenerator return
\* and whether self.df of TraderAnalyzer has the column 'sentiment_range'
tableVars == <<has_range, sizing, direction, daily_trades, freq_stats, pnl_stats,
               percentiles, perf, perf_error, pnl_error, insights, insights_error>>

vars == <<loaderVars, analyzerVars, tableVars>>

-----------------------------------------------------------------------------
(* Cells *)

NaN == <<>>

Num(v) == <<v>>

IsNa(c) == c = NaN

Val(c) == c[1]

-----------------------------------------------------------------------------
(* Bounds of the model *)

MaxTrades == 2

MaxSentiment == 2

MaxDeriveTrades == 1

MaxAnalyzerTrades == 2

\* Scores run from -ScoreMargin to 100 + ScoreMargin
ScoreMargin == 3

\* The longest trade table of the direction analysis
MaxDirectionTrades == 3

\* The most insights collected by one InsightsGenerator
MaxInsights == 3

\* The longest trade table of the runs that call every table computation
MaxTableTrades == 1

-----------------------------------------------------------------------------
(* Input domains *)

\* Timestamps that match '%d-%m-%Y %H:%M', with the calendar date .dt.date gives
TimestampDate ==
    ("01-01-2024 10:00" :> "2024-01-01") @@ ("02-01-2024 09:30" :> "2024-01-02")

\* Date texts pd.to_datetime accepts in the sentiment feed, with their dates
SentimentDate ==
    ("2024-01-01" :> "2024-01-01") @@ ("2024-01-02" :> "2024-01-02")

\* Numeric texts pd.to_numeric parses
NumericText == ("2" :> 2) @@ ("1" :> 1) @@ ("0" :> 0)

Coins == {"BTC", "ETH"}

Timestamps == {"01-01-2024 10:00", "02-01-2024 09:30", "2024-01-03 10:00"}

\* The 'Size USD' texts of the trade rows
Sizes == {"2"}

RawTrades(coins, stamps, pnls, fees, directions, sides) ==
    [Coin : coins, Timestamp_IST : stamps, Size_USD : Sizes, Closed_PnL : pnls,
     Fee : fees, Direction : directions, Side : sides]

\* Trade rows of the pipeline runs
PipelineTrades ==
    RawTrades(Coins, Timestamps, {"2"}, {"1"}, {Num("Open Long")}, {Num("Buy")})

\* Trade rows of the derivation runs: every sign of net_pnl, unparseable and
\* empty numeric cells, every kind of direction label
DeriveTrades ==
    RawTrades({"BTC"}, {"01-01-2024 10:00"}, {"2", "1", "n/a"}, {"1", "2", ""},
              {Num("Open Long"), Num("Close Short"), Num("Long > Short"), Num("Buy"), NaN},
              {Num("Buy"), NaN})

\* Direction labels, with the lower-cased words 'long' / 'short' each contains
DirectionWords ==
    ("Open Long" :> {"long"}) @@ ("Close Short" :> {"short"})
    @@ ("Long > Short" :> {"long", "short"}) @@ ("Buy" :> {})

\* Side tokens with their upper-cased form
UpperText == ("Buy" :> "BUY") @@ ("SELL" :> "SELL")

\* Sentiment records: a date with two different records, a record without
\* values, a second date and a record whose date does not parse
SentimentRecords ==
    { [date |-> "2024-01-01", value |-> Num(20), classification |-> Num("Extreme Fear")],
      [date |-> "2024-01-01", value |-> Num(45), classification |-> Num("Neutral")],
      [date |-> "2024-01-01", value |-> NaN, classification |-> NaN],
      [date |-> "2024-01-02", value |-> Num(75), classification |-> Num("Greed")],
      [date |-> "not a date", value |-> Num(75), classification |-> Num("Greed")] }

SeqsUpTo(S, n) == UNION { [1..k -> S] : k \in 0..n }

\* A CSV source: absent, or present with its data rows (<<>>: header only)
Files(S, n) == { [exists |-> FALSE, rows |-> <<>>] }
               \cup { [exists |-> TRUE, rows |-> r] : r \in SeqsUpTo(S, n) }

-----------------------------------------------------------------------------
(* DataLoader.load_btc_transactions *)

TargetCoin == "BTC"

\* pd.read_csv(path) raises when the file is not there
FileNotFoundIgnored(file) == FALSE

FileNotFound(file) == ~file.exists

\* df[df['Coin'] == 'BTC']
FilterCoin(rows) == SelectSeq(rows, LAMBDA r : r.Coin = TargetCoin)

\* The rows whose 'Timestamp IST' is parsed: those of the filtered copy
TimestampsParsedUnfiltered(rows) == rows

TimestampsParsed(rows) == FilterCoin(rows)

MatchesFormat(ts) == ts \in DOMAIN TimestampDate

\* pd.to_datetime(..., format=...) raises on the first value off the format
ToDatetimeRaises(rows) == \E i \in 1..Len(rows) : ~MatchesFormat(rows[i].Timestamp_IST)

\* pd.to_numeric(errors='coerce')
ToNumeric(s) == IF s \in DOMAIN NumericText THEN Num(NumericText[s]) ELSE NaN

BtcRow(r) ==
    [Coin |-> r.Coin, Timestamp_IST |-> r.Timestamp_IST,
     date |-> TimestampDate[r.Timestamp_IST],
     Size_USD |-> ToNumeric(r.Size_USD),
     Closed_PnL |-> ToNumeric(r.Closed_PnL), Fee |-> ToNumeric(r.Fee),
     Direction |-> r.Direction, Side |-> r.Side]

ParseBtc(rows) == [i \in 1..Len(rows) |-> BtcRow(rows[i])]

LoadBtcTransactions ==
    /\ pc = "start"
    /\ IF FileNotFound(historical)
       THEN /\ pc' = "failed"
            /\ error' = "FileNotFoundError: historical_data.csv"
            /\ UNCHANGED btc_df
       ELSE IF ToDatetimeRaises(TimestampsParsed(historical.rows))
       THEN /\ pc' = "failed"
            /\ error' = "ValueError: Timestamp IST"
            /\ UNCHANGED btc_df
       ELSE /\ btc_df' = ParseBtc(FilterCoin(historical.rows))
            /\ pc' = "btc_loaded"
            /\ UNCHANGED error
    /\ UNCHANGED <<historical, sentiment_file, save_output, passed_df, sentiment_df,
                   merged_df, output>>
    /\ UNCHANGED <<analyzerVars, tableVars>>

-----------------------------------------------------------------------------
(* DataLoader.load_sentiment_data *)

DateRaises(rows) == \E i \in 1..Len(rows) : rows[i].date \notin DOMAIN SentimentDate

SentimentRow(r) ==
    [date |-> SentimentDate[r.date], value |-> r.value, classification |-> r.classification]

ParseSentiment(rows) == [i \in 1..Len(rows) |-> SentimentRow(rows[i])]

LoadSentimentData ==
    /\ pc = "btc_loaded"
    /\ IF FileNotFound(sentiment_file)
       THEN /\ pc' = "failed"
            /\ error' = "FileNotFoundError: fear_greed_index.csv"
            /\ UNCHANGED sentiment_df
       ELSE IF DateRaises(sentiment_file.rows)
       THEN /\ pc' = "failed"
            /\ error' = "ValueError: date"
            /\ UNCHANGED sentiment_df
       ELSE /\ sentiment_df' = ParseSentiment(sentiment_file.rows)
            /\ pc' = "sentiment_loaded"
            /\ UNCHANGED error
    /\ UNCHANGED <<historical, sentiment_file, save_output, btc_df, passed_df,
                   merged_df, output>>
    /\ UNCHANGED <<analyzerVars, tableVars>>

-----------------------------------------------------------------------------
(* DataLoader.calculate_derived_metrics *)

\* A missing operand counted as zero: .fillna(0) before the subtraction
NetPnlFillZero(closed, fee) ==
    Num((IF IsNa(closed) THEN 0 ELSE Val(closed)) - (IF IsNa(fee) THEN 0 ELSE Val(fee)))

\* btc_df['Closed PnL'] - btc_df['Fee']: NaN when either operand is NaN
NetPnl(closed, fee) ==
    IF IsNa(closed) \/ IsNa(fee) THEN NaN ELSE Num(Val(closed) - Val(fee))

\* net_pnl > 0: a comparison with NaN is False
IsWin(net) == ~IsNa(net) /\ Val(net) > 0

\* net_pnl < 0
IsLoss(net) == ~IsNa(net) /\ Val(net) < 0

\* .str.contains(word, case=False, na=False)
StrContains(label, word) == ~IsNa(label) /\ word \in DirectionWords[Val(label)]

\* .str.upper(): a missing value stays missing
StrUpper(c) == IF IsNa(c) THEN NaN ELSE Num(UpperText[Val(c)])

\* read_csv types a column that has rows but no text cell as float64, and
\* the .str accessor raises AttributeError on it; the filter keeps the type
StrAccessorRaises(rows, col) ==
    rows # <<>> /\ \A i \in 1..Len(rows) : IsNa(rows[i][col])

\* net_pnl, is_win, is_loss
PnlColumns(r) ==
    LET net == NetPnl(r.Closed_PnL, r.Fee)
    IN  [net_pnl |-> net, is_win |-> IsWin(net), is_loss |-> IsLoss(net)] @@ r

\* is_long, is_short
DirectionColumns(r) ==
    [is_long |-> StrContains(r.Direction, "long"),
     is_short |-> StrContains(r.Direction, "short")] @@ r

\* action_type
ActionColumn(r) == [action_type |-> StrUpper(r.Side)] @@ r

DerivedRow(r) == ActionColumn(DirectionColumns(PnlColumns(r)))

DeriveMetrics(t) == [i \in 1..Len(t) |-> DerivedRow(t[i])]

\* The columns are added to the table passed in, one statement at a time; a
\* raising statement leaves the columns added before it. The table returned
\* is the object that was passed in: the caller's table has the new columns
CalculateDerivedMetrics ==
    /\ pc = "sentiment_loaded"
    /\ IF StrAccessorRaises(historical.rows, "Direction")
       THEN /\ btc_df' = [i \in 1..Len(btc_df) |-> PnlColumns(btc_df[i])]
            /\ pc' = "failed"
            /\ error' = "AttributeError: Direction"
       ELSE IF StrAccessorRaises(historical.rows, "Side")
       THEN /\ btc_df' = [i \in 1..Len(btc_df) |->
                              DirectionColumns(PnlColumns(btc_df[i]))]
            /\ pc' = "failed"
            /\ error' = "AttributeError: Side"
       ELSE /\ btc_df' = DeriveMetrics(btc_df)
            /\ pc' = "derived"
            /\ UNCHANGED error
    /\ passed_df' = Num(btc_df')
    /\ UNCHANGED <<historical, sentiment_file, save_output, sentiment_df,
                   merged_df, output>>
    /\ UNCHANGED <<analyzerVars, tableVars>>

-----------------------------------------------------------------------------
(* DataLoader.merge_with_sentiment *)

\* The right rows whose key equals the left row's, in right order
KeyMatches(row, right) == SelectSeq(right, LAMBDA s : s.date = row.date)

\* One joined row, the sentiment columns already renamed
JoinedRow(row, value, classification) ==
    [sentiment_score |-> value, sentiment_class |-> classification] @@ row

JoinOne(row, right) ==
    LET m == KeyMatches(row, right)
    IN  IF m = <<>>
        THEN << JoinedRow(row, NaN, NaN) >>
        ELSE [i \in 1..Len(m) |-> JoinedRow(row, m[i].value, m[i].classification)]

\* btc_df.merge(sentiment_df[[...]], on='date', how='left'): left order kept
RECURSIVE LeftMerge(_, _)
LeftMerge(left, right) ==
    IF left = <<>> THEN <<>>
    ELSE JoinOne(Head(left), right) \o LeftMerge(Tail(left), right)

\* groupby('date')[col].ffill(): the last present value above, within the group
GroupFfill(dates, col) ==
    [i \in 1..Len(col) |->
        LET above == { j \in 1..i : dates[j] = dates[i] /\ ~IsNa(col[j]) }
        IN  IF above = {} THEN NaN
            ELSE col[CHOOSE j \in above : \A k \in above : k <= j]]

\* Series.bfill(): the first present value below, over the whole column
Bfill(col) ==
    [i \in 1..Len(col) |->
        LET below == { j \in i..Len(col) : ~IsNa(col[j]) }
        IN  IF below = {} THEN NaN
            ELSE col[CHOOSE j \in below : \A k \in below : j <= k]]

\* merged_df.groupby('date')[col].ffill().bfill()
FillColumn(dates, col) == Bfill(GroupFfill(dates, col))

MergeWithSentiment_(left, right) ==
    LET m      == LeftMerge(left, right)
        dates  == [i \in 1..Len(m) |-> m[i].date]
        scores == FillColumn(dates, [i \in 1..Len(m) |-> m[i].sentiment_score])
        classes == FillColumn(dates, [i \in 1..Len(m) |-> m[i].sentiment_class])
    IN  [i \in 1..Len(m) |->
            [m[i] EXCEPT !.sentiment_score = scores[i], !.sentiment_class = classes[i]]]

MergeWithSentiment ==
    /\ pc = "derived"
    /\ merged_df' = MergeWithSentiment_(btc_df, sentiment_df)
    /\ pc' = "merged"
    /\ UNCHANGED <<historical, sentiment_file, save_output, error, btc_df, passed_df,
                   sentiment_df, output>>
    /\ UNCHANGED <<analyzerVars, tableVars>>

-----------------------------------------------------------------------------
(* DataLoader.load_and_merge: the save and the return *)

NotWritten == [written |-> FALSE, rows |-> <<>>]

\* if save_output: merged_df.to_csv(output_path)
SaveOutput ==
    /\ pc = "merged"
    /\ output' = IF save_output THEN [written |-> TRUE, rows |-> merged_df] ELSE output
    /\ pc' = "done"
    /\ UNCHANGED <<historical, sentiment_file, save_output, error, btc_df, passed_df,
                   sentiment_df, merged_df>>
    /\ UNCHANGED <<analyzerVars, tableVars>>

-----------------------------------------------------------------------------
(* The pipeline run *)

\* No table has been computed yet
TablesIdle ==
    /\ has_range = FALSE
    /\ sizing = NaN
    /\ direction = NaN
    /\ daily_trades = NaN
    /\ freq_stats = NaN
    /\ pnl_stats = NaN
    /\ percentiles = NaN
    /\ perf = NaN
    /\ perf_error = "none"
    /\ pnl_error = "none"
    /\ insights = <<>>
    /\ insights_error = "none"

\* No analysis object exists yet
AnalyzersIdle ==
    /\ observed = FALSE
    /\ df = NaN
    /\ sentiment_groups = NaN
    /\ range_analysis = NaN
    /\ insights_df = NaN
    /\ eda_df = NaN

Init ==
    /\ historical \in Files(PipelineTrades, MaxTrades)
    /\ sentiment_file \in Files(SentimentRecords, MaxSentiment)
    /\ save_output \in BOOLEAN
    /\ pc = "start"
    /\ error = "none"
    /\ btc_df = <<>>
    /\ passed_df = NaN
    /\ sentiment_df = <<>>
    /\ merged_df = <<>>
    /\ output = NotWritten
    /\ AnalyzersIdle
    /\ TablesIdle

Next ==
    \/ LoadBtcTransactions
    \/ LoadSentimentData
    \/ CalculateDerivedMetrics
    \/ MergeWithSentiment
    \/ SaveOutput

Spec == Init /\ [][Next]_vars

\* Runs over one-date trade tables with every kind of numeric and label cell
InitDerive ==
    /\ historical \in Files(DeriveTrades, MaxDeriveTrades)
    /\ sentiment_file =
          [exists |-> TRUE,
           rows |-> << [date |-> "2024-01-01", value |-> Num(20),
                        classification |-> Num("Extreme Fear")] >>]
    /\ save_output \in BOOLEAN
    /\ pc = "start"
    /\ error = "none"
    /\ btc_df = <<>>
    /\ passed_df = NaN
    /\ sentiment_df = <<>>
    /\ merged_df = <<>>
    /\ output = NotWritten
    /\ AnalyzersIdle
    /\ TablesIdle

SpecDerive == InitDerive /\ [][Next]_vars

-----------------------------------------------------------------------------
(* The merged dataset as the analysis modules read it *)

\* load_and_merge from the first load to the returned table
MergedTable(trades, records) ==
    MergeWithSentiment_(DeriveMetrics(ParseBtc(FilterCoin(trades))),
                        ParseSentiment(records))

\* pd.read_csv(data_path): the cells written by to_csv; the 'date' text is
\* then parsed back by pd.to_datetime
ReadMerged(file) == file.rows

-----------------------------------------------------------------------------
(* pd.cut(score, bins=bins, labels=labels, include_lowest=True) *)

Bins == <<0, 20, 40, 60, 80, 100>>

RangeLabels == <<"Extreme Fear", "Fear", "Neutral", "Greed", "Extreme Greed">>

\* The labels TraderAnalyzer.win_rate_by_sentiment uses
TraderRangeLabels ==
    <<"Extreme Fear (0-20)", "Fear (20-40)", "Neutral (40-60)",
      "Greed (60-80)", "Extreme Greed (80-100)">>

\* bins.searchsorted(x, side='right'): the bins at or below x
CutLeftClosed(x, bins, labels) ==
    IF IsNa(x) THEN NaN
    ELSE LET ids == Cardinality({ k \in 1..Len(bins) : bins[k] <= Val(x) })
         IN  IF ids = 0 \/ ids = Len(bins) THEN NaN ELSE Num(labels[ids])

\* right=True: ids = bins.searchsorted(x, side='left'), the bins strictly
\* below x; include_lowest: ids[x == bins[0]] = 1; ids 0 and len(bins) are NaN
Cut(x, bins, labels) ==
    IF IsNa(x) THEN NaN
    ELSE LET below == Cardinality({ k \in 1..Len(bins) : bins[k] < Val(x) })
             ids   == IF Val(x) = bins[1] THEN 1 ELSE below
         IN  IF ids = 0 \/ ids = Len(bins) THEN NaN ELSE Num(labels[ids])

WithRange(rows, labels) ==
    [i \in 1..Len(rows) |->
        [sentiment_range |-> Cut(rows[i].sentiment_score, Bins, labels)] @@ rows[i]]

\* InsightsGenerator.load_data; read_csv raises while the file is not there
InsightsLoadData ==
    /\ output.written
    /\ insights_df' = Num(WithRange(ReadMerged(output), RangeLabels))
    /\ UNCHANGED <<observed, df, sentiment_groups, range_analysis, eda_df>>
    /\ UNCHANGED <<loaderVars, tableVars>>

\* EDAAnalyzer.load_data
EDALoadData ==
    /\ output.written
    /\ eda_df' = Num(WithRange(ReadMerged(output), RangeLabels))
    /\ UNCHANGED <<observed, df, sentiment_groups, range_analysis, insights_df>>
    /\ UNCHANGED <<loaderVars, tableVars>>

\* A finished run of the loader whose merged dataset is on disk
LoaderDone(trades, records) ==
    /\ historical = [exists |-> TRUE, rows |-> trades]
    /\ sentiment_file = [exists |-> TRUE, rows |-> records]
    /\ save_output = TRUE
    /\ pc = "done"
    /\ error = "none"
    /\ btc_df = DeriveMetrics(ParseBtc(FilterCoin(trades)))
    /\ passed_df = Num(btc_df)
    /\ sentiment_df = ParseSentiment(records)
    /\ merged_df = MergedTable(trades, records)
    /\ output = [written |-> TRUE, rows |-> merged_df]

Scores == (0 - ScoreMargin)..(100 + ScoreMargin)

BucketTrade ==
    [Coin |-> "BTC", Timestamp_IST |-> "01-01-2024 10:00", Size_USD |-> "2",
     Closed_PnL |-> "2", Fee |-> "1", Direction |-> Num("Open Long"),
     Side |-> Num("Buy")]

\* One trade whose date has a record of any score, or no record at all
InitBuckets ==
    /\ \E records \in
            {<<>>} \cup { << [date |-> "2024-01-01", value |-> Num(x),
                              classification |-> Num("Neutral")] >> : x \in Scores } :
          LoaderDone(<<BucketTrade>>, records)
    /\ observed = FALSE
    /\ df = NaN
    /\ sentiment_groups = NaN
    /\ range_analysis = NaN
    /\ insights_df = NaN
    /\ eda_df = NaN
    /\ TablesIdle

NextBuckets == InsightsLoadData \/ EDALoadData

SpecBuckets == InitBuckets /\ [][NextBuckets]_vars

-----------------------------------------------------------------------------
(* TraderAnalyzer *)

\* TraderAnalyzer.load_data; read_csv raises while the file is not there
TraderLoadData ==
    /\ output.written
    /\ df' = Num(ReadMerged(output))
    /\ has_range' = FALSE
    /\ UNCHANGED <<observed, sentiment_groups, range_analysis, insights_df, eda_df>>
    /\ UNCHANGED <<sizing, direction, daily_trades, freq_stats, pnl_stats,
                   percentiles, perf, perf_error, pnl_error, insights, insights_error>>
    /\ UNCHANGED loaderVars

\* The sentiment classes of the feed in the order groupby sorts its keys
ClassOrder == <<"Extreme Fear", "Extreme Greed", "Fear", "Greed", "Neutral">>

\* The keys of order that label at least one row (NaN keys are dropped)
PresentKeys(rows, col, order) ==
    SelectSeq(order, LAMBDA c : \E i \in 1..Len(rows) : rows[i][col] = Num(c))

\* groupby on a categorical column lists every category unless observed=True
CategoricalKeys(rows, col, order, obs) ==
    IF obs THEN PresentKeys(rows, col, order) ELSE order

\* A group that also takes the rows without a key: fillna(key) before grouping
GroupRowsOrNull(rows, col, key) ==
    SelectSeq(rows, LAMBDA r : r[col] = Num(key) \/ IsNa(r[col]))

GroupRows(rows, col, key) == SelectSeq(rows, LAMBDA r : r[col] = Num(key))

RECURSIVE SumSeq(_)
SumSeq(q) == IF q = <<>> THEN 0 ELSE Head(q) + SumSeq(Tail(q))

\* The present values of a column
Present(g, col) ==
    LET p == SelectSeq(g, LAMBDA r : ~IsNa(r[col]))
    IN  [i \in 1..Len(p) |-> Val(p[i][col])]

CountTrue(g, col) == Len(SelectSeq(g, LAMBDA r : r[col]))

\* num / den rounded to four decimals, in ten-thousandths; NaN for 0 / 0
Round4(num, den) ==
    IF den = 0 THEN NaN ELSE Num((20000 * num + den) \div (2 * den))

\* The k-th smallest of the values v
Nth(v, k) ==
    CHOOSE x \in { v[i] : i \in 1..Len(v) } :
        /\ Cardinality({ i \in 1..Len(v) : v[i] < x }) < k
        /\ k <= Cardinality({ i \in 1..Len(v) : v[i] <= x })

\* 'median' of the present values, in ten-thousandths
Median4(v) ==
    LET n == Len(v)
    IN  IF n = 0 THEN NaN
        ELSE IF n % 2 = 1 THEN Num(10000 * Nth(v, (n + 1) \div 2))
        ELSE Num(5000 * (Nth(v, n \div 2) + Nth(v, n \div 2 + 1)))

\* The trade count taken from net_pnl: 'count' skips its NaN cells
WinRateRowCountPnl(key, g) ==
    [key |-> key,
     Wins |-> CountTrue(g, "is_win"),
     Total_Trades |-> Len(Present(g, "net_pnl")),
     Win_Rate |-> Round4(CountTrue(g, "is_win"), Len(g)),
     Total_PnL |-> SumSeq(Present(g, "net_pnl")),
     Avg_PnL |-> Round4(SumSeq(Present(g, "net_pnl")), Len(Present(g, "net_pnl"))),
     Median_PnL |-> Median4(Present(g, "net_pnl"))]

\* .agg({'is_win': ['sum', 'count', 'mean'], 'net_pnl': ['sum', 'mean', 'median']})
\* of one group: sums skip NaN, means and medians of nothing are NaN
WinRateRow(key, g) ==
    [key |-> key,
     Wins |-> CountTrue(g, "is_win"),
     Total_Trades |-> Len(g),
     Win_Rate |-> Round4(CountTrue(g, "is_win"), Len(g)),
     Total_PnL |-> SumSeq(Present(g, "net_pnl")),
     Avg_PnL |-> Round4(SumSeq(Present(g, "net_pnl")), Len(Present(g, "net_pnl"))),
     Median_PnL |-> Median4(Present(g, "net_pnl"))]

\* self.df.groupby('sentiment_class').agg(...)
ClassTable(rows) ==
    LET keys == PresentKeys(rows, "sentiment_class", ClassOrder)
    IN  [k \in 1..Len(keys) |->
            WinRateRow(keys[k], GroupRows(rows, "sentiment_class", keys[k]))]

RangeRow(key, g) ==
    [key |-> key,
     Wins |-> CountTrue(g, "is_win"),
     Total |-> Len(g),
     Win_Rate |-> Round4(CountTrue(g, "is_win"), Len(g)),
     Total_PnL |-> SumSeq(Present(g, "net_pnl")),
     Avg_PnL |-> Round4(SumSeq(Present(g, "net_pnl")), Len(Present(g, "net_pnl")))]

\* self.df.groupby('sentiment_range').agg(...)
RangeTable(rows, obs) ==
    LET keys == CategoricalKeys(rows, "sentiment_range", TraderRangeLabels, obs)
    IN  [k \in 1..Len(keys) |->
            RangeRow(keys[k], GroupRows(rows, "sentiment_range", keys[k]))]

\* TraderAnalyzer.win_rate_by_sentiment; self.df is None before load_data
WinRateBySentiment ==
    /\ df # NaN
    /\ sentiment_groups' = Num(ClassTable(Val(df)))
    /\ df' = Num(WithRange(Val(df), TraderRangeLabels))
    /\ range_analysis' = Num(RangeTable(Val(df'), observed))
    /\ has_range' = TRUE
    /\ UNCHANGED <<observed, insights_df, eda_df>>
    /\ UNCHANGED <<sizing, direction, daily_trades, freq_stats, pnl_stats,
                   percentiles, perf, perf_error, pnl_error, insights, insights_error>>
    /\ UNCHANGED loaderVars

\* Trades of the analysed datasets: two dates, a win, a loss and a NaN net_pnl
AnalyzerTrades ==
    { r \in RawTrades({"BTC"}, {"01-01-2024 10:00", "02-01-2024 09:30"}, {"2", "n/a"},
                      {"1", "3"}, {Num("Open Long")}, {Num("Buy")}) :
        r.Closed_PnL = "n/a" => r.Fee = "1" }

AnalyzerRecords == { r \in SentimentRecords : r.date \in DOMAIN SentimentDate }

\* observed: the default of groupby for categorical keys in the installed pandas
InitAnalyzer ==
    /\ \E trades \in SeqsUpTo(AnalyzerTrades, MaxAnalyzerTrades) :
          \E records \in SeqsUpTo(AnalyzerRecords, MaxSentiment) :
              LoaderDone(trades, records)
    /\ observed \in BOOLEAN
    /\ df = NaN
    /\ sentiment_groups = NaN
    /\ range_analysis = NaN
    /\ insights_df = NaN
    /\ eda_df = NaN
    /\ TablesIdle

NextAnalyzer == TraderLoadData \/ WinRateBySentiment

SpecAnalyzer == InitAnalyzer /\ [][NextAnalyzer]_vars

-----------------------------------------------------------------------------
(* TraderAnalyzer.trade_direction_analysis *)

\* num / den rounded to two decimals, in hundredths; NaN for 0 / 0
Round2(num, den) ==
    IF den = 0 THEN NaN ELSE Num((200 * num + den) \div (2 * den))

\* Total as the number of trades of the group
DirectionRowAllTrades(key, g) ==
    [key |-> key,
     is_long |-> CountTrue(g, "is_long"),
     is_short |-> CountTrue(g, "is_short"),
     Total |-> Len(g),
     Long_Ratio |-> Round2(100 * CountTrue(g, "is_long"), Len(g)),
     Short_Ratio |-> Round2(100 * CountTrue(g, "is_short"), Len(g))]

\* .agg({'is_long': 'sum', 'is_short': 'sum'}) of one group, then Total and
\* the two ratios (x / Total * 100).round(2), held in hundredths of a percent
DirectionRow(key, g) ==
    LET long == CountTrue(g, "is_long")
        short == CountTrue(g, "is_short")
    IN  [key |-> key,
         is_long |-> long,
         is_short |-> short,
         Total |-> long + short,
         Long_Ratio |-> Round2(100 * long, long + short),
         Short_Ratio |-> Round2(100 * short, long + short)]

DirectionTable(rows) ==
    LET keys == PresentKeys(rows, "sentiment_class", ClassOrder)
    IN  [k \in 1..Len(keys) |->
            DirectionRow(keys[k], GroupRows(rows, "sentiment_class", keys[k]))]

\* TraderAnalyzer.trade_direction_analysis
TradeDirectionAnalysis ==
    /\ df # NaN
    /\ direction' = Num(DirectionTable(Val(df)))
    /\ UNCHANGED <<has_range, sizing, daily_trades, freq_stats, pnl_stats,
                   percentiles, perf, perf_error, pnl_error, insights, insights_error>>
    /\ UNCHANGED <<analyzerVars, loaderVars>>

\* Trades with every kind of Direction label: both words or the short one
\* on the first day, the long one or neither on the second
DirectionTrades ==
    RawTrades({"BTC"}, {"01-01-2024 10:00"}, {"2"}, {"1"},
              {Num("Long > Short"), Num("Close Short")}, {Num("Buy")})
    \cup RawTrades({"BTC"}, {"02-01-2024 09:30"}, {"2"}, {"1"},
                   {Num("Open Long"), Num("Buy")}, {Num("Buy")})

\* One sentiment record for each day
DirectionRecords == { r \in AnalyzerRecords : r.value \in {Num(20), Num(75)} }

\* The direction table is grouped on a text column: observed is not read
InitDirection ==
    /\ \E trades \in SeqsUpTo(DirectionTrades, MaxDirectionTrades) :
          \E records \in SeqsUpTo(DirectionRecords, MaxSentiment) :
              LoaderDone(trades, records)
    /\ observed = FALSE
    /\ df = NaN
    /\ sentiment_groups = NaN
    /\ range_analysis = NaN
    /\ insights_df = NaN
    /\ eda_df = NaN
    /\ TablesIdle

NextDirection == TraderLoadData \/ TradeDirectionAnalysis

SpecDirection == InitDirection /\ [][NextDirection]_vars

-----------------------------------------------------------------------------
(* TraderAnalyzer.trade_frequency_analysis *)

\* The dates of the trades in the order groupby sorts them
DateOrder == <<"2024-01-01", "2024-01-02">>

\* The (date, sentiment_class) keys in the order groupby sorts them
PairOrder ==
    [k \in 1..(Len(DateOrder) * Len(ClassOrder)) |->
        << DateOrder[((k - 1) \div Len(ClassOrder)) + 1],
           ClassOrder[((k - 1) % Len(ClassOrder)) + 1] >>]

\* One count per sentiment class: groupby('sentiment_class').size()
DailyTradesPerClass(rows) ==
    LET keys == PresentKeys(rows, "sentiment_class", ClassOrder)
    IN  [k \in 1..Len(keys) |->
            [date |-> GroupRows(rows, "sentiment_class", keys[k])[1].date,
             sentiment_class |-> Num(keys[k]),
             trade_count |-> Len(GroupRows(rows, "sentiment_class", keys[k]))]]

\* groupby(['date', 'sentiment_class']).size().reset_index(name='trade_count'):
\* one row for each pair that has a trade, rows without a class are dropped
DailyTrades(rows) ==
    LET size(p) == Len(SelectSeq(rows, LAMBDA r :
                        r.date = p[1] /\ r.sentiment_class = Num(p[2])))
        pairs == SelectSeq(PairOrder, LAMBDA p : size(p) > 0)
    IN  [k \in 1..Len(pairs) |->
            [date |-> pairs[k][1],
             sentiment_class |-> Num(pairs[k][2]),
             trade_count |-> size(pairs[k])]]

\* 'median' of the values v, in hundredths
Median2(v) ==
    LET n == Len(v)
    IN  IF n = 0 THEN NaN
        ELSE IF n % 2 = 1 THEN Num(100 * Nth(v, (n + 1) \div 2))
        ELSE Num(50 * (Nth(v, n \div 2) + Nth(v, n \div 2 + 1)))

\* 'std' of the values v (ddof=1) rounded to two decimals, in hundredths:
\* the variance is num / den, NaN for fewer than two values
Std2(v) ==
    LET n == Len(v)
        num == n * SumSeq([i \in 1..n |-> v[i] * v[i]]) - SumSeq(v) * SumSeq(v)
        den == n * (n - 1)
    IN  IF n < 2 THEN NaN
        ELSE Num(CHOOSE s \in 0..(100 * (Nth(v, n) - Nth(v, 1))) :
                    /\ 40000 * num < (2 * s + 1) * (2 * s + 1) * den
                    /\ s = 0 \/ (2 * s - 1) * (2 * s - 1) * den <= 40000 * num)

\* ['trade_count'].agg(['mean', 'median', 'std', 'min', 'max']).round(2) of
\* one class; the first three in hundredths, min and max are whole counts
FreqRow(key, g) ==
    LET v == [i \in 1..Len(g) |-> g[i].trade_count]
    IN  [key |-> key,
         Avg_Daily_Trades |-> Round2(SumSeq(v), Len(v)),
         Median |-> Median2(v),
         Std |-> Std2(v),
         Min |-> Nth(v, 1),
         Max |-> Nth(v, Len(v))]

FreqTable(daily) ==
    LET keys == PresentKeys(daily, "sentiment_class", ClassOrder)
    IN  [k \in 1..Len(keys) |->
            FreqRow(keys[k], GroupRows(daily, "sentiment_class", keys[k]))]

\* TraderAnalyzer.trade_frequency_analysis
TradeFrequencyAnalysis ==
    /\ df # NaN
    /\ daily_trades' = Num(DailyTrades(Val(df)))
    /\ freq_stats' = Num(FreqTable(Val(daily_trades')))
    /\ UNCHANGED <<has_range, sizing, direction, pnl_stats, percentiles, perf,
                   perf_error, pnl_error, insights, insights_error>>
    /\ UNCHANGED <<analyzerVars, loaderVars>>

\* Trades that differ in their day only
FrequencyTrades ==
    RawTrades({"BTC"}, {"01-01-2024 10:00", "02-01-2024 09:30"}, {"2"}, {"1"},
              {Num("Open Long")}, {Num("Buy")})

InitFrequency ==
    /\ \E trades \in SeqsUpTo(FrequencyTrades, MaxAnalyzerTrades) :
          \E records \in SeqsUpTo(AnalyzerRecords, MaxSentiment) :
              LoaderDone(trades, records)
    /\ observed \in BOOLEAN
    /\ df = NaN
    /\ sentiment_groups = NaN
    /\ range_analysis = NaN
    /\ insights_df = NaN
    /\ eda_df = NaN
    /\ TablesIdle

NextFrequency == TraderLoadData \/ TradeFrequencyAnalysis

SpecFrequency == InitFrequency /\ [][NextFrequency]_vars

-----------------------------------------------------------------------------
(* TraderAnalyzer.best_worst_conditions *)

\* .agg({'net_pnl': ['sum', 'mean', 'count'], 'is_win': 'mean'}).round(4) of
\* one group: 'count' skips NaN, the means are in ten-thousandths
PerfRow(key, g) ==
    [key |-> key,
     Total_PnL |-> SumSeq(Present(g, "net_pnl")),
     Avg_PnL |-> Round4(SumSeq(Present(g, "net_pnl")), Len(Present(g, "net_pnl"))),
     Trade_Count |-> Len(Present(g, "net_pnl")),
     Win_Rate |-> Round4(CountTrue(g, "is_win"), Len(g))]

\* self.df.groupby('sentiment_range').agg(...)
PerfTable(rows, obs) ==
    LET keys == CategoricalKeys(rows, "sentiment_range", TraderRangeLabels, obs)
    IN  [k \in 1..Len(keys) |->
            PerfRow(keys[k], GroupRows(rows, "sentiment_range", keys[k]))]

\* The row orders sort_values('Win_Rate', ascending=False) can return: the
\* default kind='quicksort' is not a stable sort, so rows with equal Win_Rate
\* come in whichever order the installed numpy leaves them; the NaN rows are
\* appended last (na_position='last') in their own order
SortOrders(t) ==
    { p \in Permutations(1..Len(t)) :
        \A i, j \in 1..Len(t) : i < j =>
            /\ IsNa(t[p[i]].Win_Rate) => IsNa(t[p[j]].Win_Rate)
            /\ (~IsNa(t[p[i]].Win_Rate) /\ ~IsNa(t[p[j]].Win_Rate))
                   => Val(t[p[i]].Win_Rate) >= Val(t[p[j]].Win_Rate)
            /\ (IsNa(t[p[i]].Win_Rate) /\ IsNa(t[p[j]].Win_Rate)) => p[i] < p[j] }

\* TraderAnalyzer.best_worst_conditions: groupby('sentiment_range') raises
\* KeyError while self.df has no such column
BestWorstConditions ==
    /\ df # NaN
    /\ IF has_range
       THEN \E p \in SortOrders(PerfTable(Val(df), observed)) :
               /\ perf' = Num([i \in 1..Len(p) |-> PerfTable(Val(df), observed)[p[i]]])
               /\ perf_error' = "none"
       ELSE /\ perf_error' = "KeyError: sentiment_range"
            /\ UNCHANGED perf
    /\ UNCHANGED <<has_range, sizing, direction, daily_trades, freq_stats, pnl_stats,
                   percentiles, pnl_error, insights, insights_error>>
    /\ UNCHANGED <<analyzerVars, loaderVars>>

-----------------------------------------------------------------------------
(* InsightsGenerator.identify_optimal_conditions *)

\* .agg({'net_pnl': ['sum', 'mean', 'count'], 'is_win': 'mean',
\*       'Size USD': 'mean'}).round(4) of one group
InsightsPerfRow(key, g) ==
    [key |-> key,
     Total_PnL |-> Num(SumSeq(Present(g, "net_pnl"))),
     Avg_PnL |-> Round4(SumSeq(Present(g, "net_pnl")), Len(Present(g, "net_pnl"))),
     Trades |-> Len(Present(g, "net_pnl")),
     Win_Rate |-> Round4(CountTrue(g, "is_win"), Len(g)),
     Avg_Size |-> Round4(SumSeq(Present(g, "Size_USD")), Len(Present(g, "Size_USD")))]

InsightsPerfTable(rows, obs) ==
    LET keys == CategoricalKeys(rows, "sentiment_range", RangeLabels, obs)
    IN  [k \in 1..Len(keys) |->
            InsightsPerfRow(keys[k], GroupRows(rows, "sentiment_range", keys[k]))]

\* Series.idxmax(): the position of the first occurrence of the greatest
\* present value; 0 stands for no present value, where idxmax raises
\* ValueError or returns NaN, which perf.loc[...] then rejects with KeyError
IdxMax(t, col) ==
    LET present == { k \in 1..Len(t) : ~IsNa(t[k][col]) }
        greatest == { k \in present : \A j \in present : Val(t[j][col]) <= Val(t[k][col]) }
    IN  IF present = {} THEN 0
        ELSE CHOOSE k \in greatest : \A j \in greatest : k <= j

\* The three f-strings: the winning bucket and the value as it is formatted
\* (.1f of Win_Rate * 100 in tenths of a percent, .2f of the amounts in
\* hundredths)
WinRateInsight(row) ==
    [insight |-> "HIGHEST WIN RATE", conditions |-> row.key,
     value |-> (Val(row.Win_Rate) + 5) \div 10]

ProfitInsight(row) ==
    [insight |-> "MOST PROFITABLE", conditions |-> row.key,
     value |-> 100 * Val(row.Total_PnL)]

AverageInsight(row) ==
    [insight |-> "BEST AVERAGE", conditions |-> row.key,
     value |-> (Val(row.Avg_PnL) + 50) \div 100]

\* The insights appended before a statement raises, if one does
OptimalInsights(t) ==
    LET best_sentiment == IdxMax(t, "Win_Rate")
        most_profitable == IdxMax(t, "Total_PnL")
        best_avg == IdxMax(t, "Avg_PnL")
    IN  IF best_sentiment = 0 THEN <<>>
        ELSE IF most_profitable = 0 THEN << WinRateInsight(t[best_sentiment]) >>
        ELSE IF best_avg = 0
             THEN << WinRateInsight(t[best_sentiment]), ProfitInsight(t[most_profitable]) >>
        ELSE << WinRateInsight(t[best_sentiment]), ProfitInsight(t[most_profitable]),
                AverageInsight(t[best_avg]) >>

\* InsightsGenerator.identify_optimal_conditions
IdentifyOptimalConditions ==
    /\ insights_df # NaN
    /\ LET t == InsightsPerfTable(Val(insights_df), observed)
       IN  /\ insights' = insights \o OptimalInsights(t)
           /\ insights_error' = IF Len(OptimalInsights(t)) = 3 THEN "none"
                                ELSE "idxmax: no present value"
    /\ Len(insights) < MaxInsights
    /\ UNCHANGED <<has_range, sizing, direction, daily_trades, freq_stats, pnl_stats,
                   percentiles, perf, perf_error, pnl_error>>
    /\ UNCHANGED <<analyzerVars, loaderVars>>

\* Trades of two days, won or lost
RankingTrades ==
    RawTrades({"BTC"}, {"01-01-2024 10:00", "02-01-2024 09:30"}, {"2", "0"}, {"1"},
              {Num("Open Long")}, {Num("Buy")})

InitRanking ==
    /\ \E trades \in SeqsUpTo(RankingTrades, MaxAnalyzerTrades) :
          \E records \in SeqsUpTo(AnalyzerRecords, MaxSentiment) :
              LoaderDone(trades, records)
    /\ observed \in BOOLEAN
    /\ df = NaN
    /\ sentiment_groups = NaN
    /\ range_analysis = NaN
    /\ insights_df = NaN
    /\ eda_df = NaN
    /\ TablesIdle

NextRanking ==
    \/ TraderLoadData
    \/ WinRateBySentiment
    \/ BestWorstConditions
    \/ InsightsLoadData
    \/ EDALoadData
    \/ IdentifyOptimalConditions

SpecRanking == InitRanking /\ [][NextRanking]_vars

-----------------------------------------------------------------------------
(* TraderAnalyzer.position_sizing_analysis *)

\* The least and the greatest of the values v, in hundredths
Min2(v) == IF v = <<>> THEN NaN ELSE Num(100 * Nth(v, 1))

Max2(v) == IF v = <<>> THEN NaN ELSE Num(100 * Nth(v, Len(v)))

\* .agg({'Size USD': ['mean', 'median', 'std', 'min', 'max']}).round(2) of
\* one group, in hundredths
SizingRow(key, g) ==
    LET v == Present(g, "Size_USD")
    IN  [key |-> key,
         Avg_Size |-> Round2(SumSeq(v), Len(v)),
         Median_Size |-> Median2(v),
         Std_Size |-> Std2(v),
         Min_Size |-> Min2(v),
         Max_Size |-> Max2(v)]

SizingTable(rows) ==
    LET keys == PresentKeys(rows, "sentiment_class", ClassOrder)
    IN  [k \in 1..Len(keys) |->
            SizingRow(keys[k], GroupRows(rows, "sentiment_class", keys[k]))]

\* TraderAnalyzer.position_sizing_analysis
PositionSizingAnalysis ==
    /\ df # NaN
    /\ sizing' = Num(SizingTable(Val(df)))
    /\ UNCHANGED <<has_range, direction, daily_trades, freq_stats, pnl_stats,
                   percentiles, perf, perf_error, pnl_error, insights, insights_error>>
    /\ UNCHANGED <<analyzerVars, loaderVars>>

-----------------------------------------------------------------------------
(* TraderAnalyzer.pnl_distribution_analysis *)

\* The q-th percentile of the values v by linear interpolation between the
\* two nearest ranks, in hundredths (exact: the weight is a whole percent)
Quantile2(v, q) ==
    LET h == (Len(v) - 1) * q
        lo == (h \div 100) + 1
    IN  IF v = <<>> THEN NaN
        ELSE IF h % 100 = 0 THEN Num(100 * Nth(v, lo))
        ELSE Num(100 * Nth(v, lo) + (h % 100) * (Nth(v, lo + 1) - Nth(v, lo)))

\* ['net_pnl'].describe().round(2) of one group: count, mean, std, min,
\* 25%, 50%, 75%, max of the present values
DescribeRow(key, g) ==
    LET v == Present(g, "net_pnl")
    IN  [key |-> key,
         count |-> Len(v),
         mean |-> Round2(SumSeq(v), Len(v)),
         std |-> Std2(v),
         min |-> Min2(v),
         q25 |-> Quantile2(v, 25),
         q50 |-> Quantile2(v, 50),
         q75 |-> Quantile2(v, 75),
         max |-> Max2(v)]

DescribeTable(rows) ==
    LET keys == PresentKeys(rows, "sentiment_class", ClassOrder)
    IN  [k \in 1..Len(keys) |->
            DescribeRow(keys[k], GroupRows(rows, "sentiment_class", keys[k]))]

\* ['net_pnl'].quantile([0.25, 0.5, 0.75, 0.9, 0.95]).unstack() of one group
PercentileRow(key, g) ==
    LET v == Present(g, "net_pnl")
    IN  [key |-> key,
         q25 |-> Quantile2(v, 25),
         q50 |-> Quantile2(v, 50),
         q75 |-> Quantile2(v, 75),
         q90 |-> Quantile2(v, 90),
         q95 |-> Quantile2(v, 95)]

PercentileTable(rows) ==
    LET keys == PresentKeys(rows, "sentiment_class", ClassOrder)
    IN  [k \in 1..Len(keys) |->
            PercentileRow(keys[k], GroupRows(rows, "sentiment_class", keys[k]))]

\* describe() of a grouping without groups over a frame with rows unstacks an
\* empty Series that has no MultiIndex, which raises ValueError
DescribeRaises(rows) ==
    rows # <<>> /\ PresentKeys(rows, "sentiment_class", ClassOrder) = <<>>

\* TraderAnalyzer.pnl_distribution_analysis
PnlDistributionAnalysis ==
    /\ df # NaN
    /\ IF DescribeRaises(Val(df))
       THEN /\ pnl_error' = "ValueError: unstack"
            /\ UNCHANGED <<pnl_stats, percentiles>>
       ELSE /\ pnl_stats' = Num(DescribeTable(Val(df)))
            /\ percentiles' = Num(PercentileTable(Val(df)))
            /\ pnl_error' = "none"
    /\ UNCHANGED <<has_range, sizing, direction, daily_trades, freq_stats, perf,
                   perf_error, insights, insights_error>>
    /\ UNCHANGED <<analyzerVars, loaderVars>>

-----------------------------------------------------------------------------
(* The table computations of TraderAnalyzer in any order *)

\* Trades of two days
TableTrades ==
    RawTrades({"BTC"}, {"01-01-2024 10:00", "02-01-2024 09:30"}, {"2"}, {"1"},
              {Num("Open Long")}, {Num("Buy")})

InitTables ==
    /\ \E trades \in SeqsUpTo(TableTrades, MaxTableTrades) :
          \E records \in SeqsUpTo(AnalyzerRecords, MaxSentiment) :
              LoaderDone(trades, records)
    /\ observed \in BOOLEAN
    /\ df = NaN
    /\ sentiment_groups = NaN
    /\ range_analysis = NaN
    /\ insights_df = NaN
    /\ eda_df = NaN
    /\ TablesIdle

NextTables ==
    \/ TraderLoadData
    \/ WinRateBySentiment
    \/ PositionSizingAnalysis
    \/ TradeDirectionAnalysis
    \/ TradeFrequencyAnalysis
    \/ PnlDistributionAnalysis
    \/ BestWorstConditions

SpecTables == InitTables /\ [][NextTables]_vars

-----------------------------------------------------------------------------
(* Properties of the pipeline *)

Joined == pc \in {"merged", "done"}

\* calculate_derived_metrics has set net_pnl, is_win and is_loss
Derived ==
    \/ pc \in {"derived", "merged", "done"}
    \/ pc = "failed" /\ error \in {"AttributeError: Direction", "AttributeError: Side"}

\* The sentiment records loaded for a date
RecordsOf(d) == { i \in 1..Len(sentiment_df) : sentiment_df[i].date = d }

\* The input rows whose instrument is exactly the target
TargetRows == { i \in 1..Len(historical.rows) : historical.rows[i].Coin = "BTC" }

\* C1: merge_with_sentiment returns exactly as many rows as the trade table
\* it was given, whatever the sentiment table.
C1_JoinKeepsRowCount == Joined => Len(merged_df) = Len(btc_df)

\* C2: after merge_with_sentiment every trade whose date has no sentiment
\* record has null sentiment_score and null sentiment_class.
C2_NoRecordStaysNull ==
    Joined =>
        \A i \in 1..Len(merged_df) :
            RecordsOf(merged_df[i].date) = {} =>
                /\ IsNa(merged_df[i].sentiment_score)
                /\ IsNa(merged_df[i].sentiment_class)

\* C3: every non-null sentiment_score and sentiment_class of a merged trade
\* is the value / classification of a sentiment record of that trade's date.
C3_SentimentFromOwnDate ==
    Joined =>
        \A i \in 1..Len(merged_df) :
            LET own == RecordsOf(merged_df[i].date)
            IN  /\ ~IsNa(merged_df[i].sentiment_score) =>
                     \E j \in own : sentiment_df[j].value = merged_df[i].sentiment_score
                /\ ~IsNa(merged_df[i].sentiment_class) =>
                     \E j \in own :
                         sentiment_df[j].classification = merged_df[i].sentiment_class

\* C6: every loaded row has the target instrument and there are as many of
\* them as target-instrument input rows, after the load, after the
\* derivation and after the sentiment join.
C6_OnlyTargetInstrument ==
    /\ pc \notin {"start", "failed"} =>
          /\ \A i \in 1..Len(btc_df) : btc_df[i].Coin = "BTC"
          /\ Len(btc_df) = Cardinality(TargetRows)
    /\ Joined =>
          /\ \A i \in 1..Len(merged_df) : merged_df[i].Coin = "BTC"
          /\ Len(merged_df) = Cardinality(TargetRows)

\* The load of the trade table must fail: no file, or a retained row whose
\* timestamp is off the format
BtcLoadMustFail ==
    \/ ~historical.exists
    \/ \E i \in TargetRows : historical.rows[i].Timestamp_IST \notin DOMAIN TimestampDate

\* The load of the sentiment table must fail: no file, or an unparseable date
SentimentLoadMustFail ==
    \/ ~sentiment_file.exists
    \/ \E i \in 1..Len(sentiment_file.rows) :
           sentiment_file.rows[i].date \notin DOMAIN SentimentDate

\* C7: the merged dataset is written only after both loads, the derivation
\* and the join; when a load fails the error reaches the caller, no later
\* step runs and nothing is produced or written.
C7_WriteOnlyAfterAllSteps ==
    /\ output.written =>
          /\ pc = "done"
          /\ save_output
          /\ output.rows = merged_df
          /\ ~BtcLoadMustFail /\ ~SentimentLoadMustFail
    /\ BtcLoadMustFail =>
          /\ pc \in {"start", "failed"}
          /\ btc_df = <<>> /\ sentiment_df = <<>>
    /\ (BtcLoadMustFail \/ SentimentLoadMustFail) =>
          /\ pc \in {"start", "btc_loaded", "failed"}
          /\ merged_df = <<>>
          /\ ~output.written
    /\ pc = "failed" => error # "none" /\ merged_df = <<>> /\ ~output.written

\* A run whose sentiment load failed after the trades were loaded
C7_Witness ==
    /\ pc = "failed"
    /\ btc_df # <<>>
    /\ ~sentiment_file.exists
    /\ save_output

\* C8: a run on an absent or empty (no data rows) input fails at load time
\* and goes no further.
C8_EmptyInputFailsAtLoad ==
    (\/ ~historical.exists \/ historical.rows = <<>>
     \/ ~sentiment_file.exists \/ sentiment_file.rows = <<>>)
        => pc \in {"start", "btc_loaded", "failed"}

C9_OtherInstrumentReached ==
    /\ pc = "btc_loaded"
    /\ btc_df # <<>>
    /\ \E i \in 1..Len(historical.rows) :
           /\ historical.rows[i].Coin # "BTC"
           /\ historical.rows[i].Timestamp_IST \notin DOMAIN TimestampDate

\* C5: net_pnl = Closed PnL - Fee when both are present and NaN when either
\* is missing; is_win iff net_pnl > 0, is_loss iff net_pnl < 0; never both,
\* and neither when net_pnl is zero or NaN.
C5_NetPnlAndWinLoss ==
    Derived =>
        \A i \in 1..Len(btc_df) :
            LET r == btc_df[i]
            IN  /\ IF r.Closed_PnL # NaN /\ r.Fee # NaN
                   THEN r.net_pnl = << r.Closed_PnL[1] - r.Fee[1] >>
                   ELSE r.net_pnl = NaN
                /\ r.is_win = (r.net_pnl \in { <<n>> : n \in 1..10 })
                /\ r.is_loss = (r.net_pnl \in { <<0 - n>> : n \in 1..10 })
                /\ ~(r.is_win /\ r.is_loss)
                /\ r.net_pnl \in {NaN, <<0>>} => ~r.is_win /\ ~r.is_loss

\* A derived row with a missing fee
C5_Witness ==
    /\ pc = "derived"
    /\ \E i \in 1..Len(btc_df) :
           /\ btc_df[i].Closed_PnL = <<2>>
           /\ btc_df[i].Fee = NaN
           /\ btc_df[i].net_pnl = NaN

\* The bucket the boundaries of the data model give a score
BucketOf(x) ==
    IF x = NaN THEN NaN
    ELSE IF x[1] < 0 \/ x[1] > 100 THEN NaN
    ELSE IF x[1] <= 20 THEN <<"Extreme Fear">>
    ELSE IF x[1] <= 40 THEN <<"Fear">>
    ELSE IF x[1] <= 60 THEN <<"Neutral">>
    ELSE IF x[1] <= 80 THEN <<"Greed">>
    ELSE <<"Extreme Greed">>

RangesAsSpecified(t) ==
    t # NaN => \A i \in 1..Len(t[1]) :
                  t[1][i].sentiment_range = BucketOf(t[1][i].sentiment_score)

\* C4: the bucket classifier maps [0,20] to Extreme Fear, (20,40] to Fear,
\* (40,60] to Neutral, (60,80] to Greed, (80,100] to Extreme Greed, and a
\* null score or one outside [0,100] to null.
C4_BucketBoundaries == RangesAsSpecified(insights_df) /\ RangesAsSpecified(eda_df)

\* A score on a boundary, classified into the lower bucket by both modules
C4_Witness ==
    /\ insights_df # NaN /\ eda_df # NaN
    /\ insights_df[1][1].sentiment_score = <<20>>
    /\ insights_df[1][1].sentiment_range = <<"Extreme Fear">>
    /\ eda_df[1][1].sentiment_range = <<"Extreme Fear">>

\* The table has a row for the key, and its win rate is NaN
HasNaNRow(table, key) ==
    \E k \in 1..Len(table) : table[k].key = key /\ table[k].Win_Rate = NaN

\* C10: in the win-rate tables by sentiment_class and by sentiment_range a
\* group with zero trades has a row whose win rate is NaN: not zero, no
\* error, not omitted.
C10_EmptyGroupIsNaN ==
    sentiment_groups # NaN =>
        /\ \A c \in { ClassOrder[k] : k \in 1..Len(ClassOrder) } :
              GroupRows(df[1], "sentiment_class", c) = <<>>
                  => HasNaNRow(sentiment_groups[1], c)
        /\ \A c \in { TraderRangeLabels[k] : k \in 1..Len(TraderRangeLabels) } :
              GroupRows(df[1], "sentiment_range", c) = <<>>
                  => HasNaNRow(range_analysis[1], c)

-----------------------------------------------------------------------------
(* Properties of the win-rate table *)

\* The rows of the analysed dataset whose sentiment_class is c
ClassMembers(c) == { i \in 1..Len(df[1]) : df[1][i].sentiment_class = <<c>> }

RECURSIVE PnlOver(_)
\* The sum of the present net_pnl over a set of rows of the dataset
PnlOver(S) ==
    IF S = {} THEN 0
    ELSE LET i == CHOOSE j \in S : TRUE
         IN  (IF df[1][i].net_pnl = NaN THEN 0 ELSE df[1][i].net_pnl[1])
             + PnlOver(S \ {i})

\* Wins, Total_Trades and Total_PnL of a table row are those of its group
CountsOfGroup(row) ==
    LET g == ClassMembers(row.key)
    IN  /\ row.Wins = Cardinality({ i \in g : df[1][i].is_win })
        /\ row.Total_Trades = Cardinality(g)
        /\ row.Total_PnL = PnlOver(g)
        /\ \A i \in g : df[1][i].net_pnl = NaN => ~df[1][i].is_win

\* C11 as stated: for every group of the win-rate table Wins, Total_Trades
\* and Total_PnL are the group's counts and sum, and Win_Rate is exactly
\* Wins / Total_Trades (Win_Rate is held in ten-thousandths).
C11_WinRateExact ==
    sentiment_groups # NaN =>
        \A k \in 1..Len(sentiment_groups[1]) :
            LET row == sentiment_groups[1][k]
            IN  /\ CountsOfGroup(row)
                /\ row.Win_Rate # NaN
                /\ row.Win_Rate[1] * row.Total_Trades = 10000 * row.Wins

\* C11 amended: the same, with Win_Rate the quotient Wins / Total_Trades
\* rounded to four decimals.
C11_WinRateRounded ==
    sentiment_groups # NaN =>
        \A k \in 1..Len(sentiment_groups[1]) :
            LET row == sentiment_groups[1][k]
                off == row.Win_Rate[1] * row.Total_Trades - 10000 * row.Wins
            IN  /\ CountsOfGroup(row)
                /\ row.Win_Rate # NaN
                /\ 2 * off <= row.Total_Trades
                /\ 0 - 2 * off <= row.Total_Trades

\* A group of three trades, one won and one with a NaN net_pnl
C11_Witness ==
    /\ sentiment_groups # NaN
    /\ \E k \in 1..Len(sentiment_groups[1]) :
           /\ sentiment_groups[1][k].Total_Trades = 3
           /\ sentiment_groups[1][k].Wins = 1
           /\ sentiment_groups[1][k].Win_Rate = <<3333>>
           /\ \E i \in ClassMembers(sentiment_groups[1][k].key) : df[1][i].net_pnl = NaN

\* The trades of all groups of the win-rate table together
GroupedTrades ==
    SumSeq([k \in 1..Len(sentiment_groups[1]) |-> sentiment_groups[1][k].Total_Trades])

\* The rows of the analysed dataset without a sentiment_class
Unclassified == { i \in 1..Len(df[1]) : df[1][i].sentiment_class = NaN }

-----------------------------------------------------------------------------
(* Properties of the direction table *)

\* The long and short counts and Total of a row are those of its class
DirectionCounts(row) ==
    LET g == ClassMembers(row.key)
    IN  /\ row.is_long = Cardinality({ i \in g : df[1][i].is_long })
        /\ row.is_short = Cardinality({ i \in g : df[1][i].is_short })
        /\ row.Total = row.is_long + row.is_short
        /\ row.Total = Cardinality(g)
                       - Cardinality({ i \in g : ~df[1][i].is_long /\ ~df[1][i].is_short })
                       + Cardinality({ i \in g : df[1][i].is_long /\ df[1][i].is_short })
        /\ row.Total = 0 <=> (row.Long_Ratio = NaN /\ row.Short_Ratio = NaN)
        /\ row.Total = 0 <=> (row.Long_Ratio = NaN \/ row.Short_Ratio = NaN)

\* C12 as stated: for every class of the direction table the long and short
\* counts are the numbers of its trades flagged is_long and is_short, Total
\* is their sum, both ratios are NaN when Total is 0 and otherwise exactly
\* 100 * long / Total and 100 * short / Total (ratios are held in hundredths).
C12_RatiosExact ==
    direction # NaN =>
        \A k \in 1..Len(direction[1]) :
            LET row == direction[1][k]
            IN  /\ DirectionCounts(row)
                /\ row.Total # 0 =>
                       /\ row.Long_Ratio[1] * row.Total = 10000 * row.is_long
                       /\ row.Short_Ratio[1] * row.Total = 10000 * row.is_short

\* x is the quotient num / den rounded to the nearest integer
Nearest(x, num, den) == 2 * (x * den - num) <= den /\ 2 * (num - x * den) <= den

\* C12 amended: the same, with each ratio the percentage rounded to two
\* decimals.
C12_RatiosRounded ==
    direction # NaN =>
        \A k \in 1..Len(direction[1]) :
            LET row == direction[1][k]
            IN  /\ DirectionCounts(row)
                /\ row.Total # 0 =>
                       /\ Nearest(row.Long_Ratio[1], 10000 * row.is_long, row.Total)
                       /\ Nearest(row.Short_Ratio[1], 10000 * row.is_short, row.Total)

\* A class with a trade flagged both ways and one flagged short only, so that
\* Total is 3 and the long ratio 33.33, next to a class whose Total is 0
C12_Witness ==
    /\ direction # NaN
    /\ \E k \in 1..Len(direction[1]) :
           /\ direction[1][k].Total = 3
           /\ direction[1][k].is_long = 1
           /\ direction[1][k].Long_Ratio = <<3333>>
           /\ direction[1][k].Short_Ratio = <<6667>>
    /\ \E k \in 1..Len(direction[1]) :
           /\ direction[1][k].Total = 0
           /\ direction[1][k].Long_Ratio = NaN
           /\ ClassMembers(direction[1][k].key) # {}

-----------------------------------------------------------------------------
(* Properties of the frequency table *)

\* The rows of the per-day table that belong to a class
DailyOf(c) == { k \in 1..Len(daily_trades[1]) : daily_trades[1][k].sentiment_class = <<c>> }

\* The distinct dates that have a trade of a class
DatesOf(c) == { df[1][i].date : i \in ClassMembers(c) }

\* The trades of a class on a date
TradesOn(c, d) == { i \in ClassMembers(c) : df[1][i].date = d }

RECURSIVE CountOver(_)
CountOver(S) ==
    IF S = {} THEN 0
    ELSE LET k == CHOOSE j \in S : TRUE
         IN  daily_trades[1][k].trade_count + CountOver(S \ {k})

\* C13: the per-day table has one trade count for each (date, class) pair
\* with a trade; every class with a trade has a row of the frequency table
\* whose Min and Max are the least and greatest of its per-day counts and
\* whose Avg_Daily_Trades is their mean (to two decimals), so that
\* 1 <= Min <= Avg_Daily_Trades <= Max, and the number of its per-day counts
\* is the number of distinct dates having a trade of the class.
C13_TwoLevelFrequency ==
    freq_stats # NaN =>
        /\ \A k \in 1..Len(daily_trades[1]) :
               LET day == daily_trades[1][k]
               IN  /\ day.sentiment_class # NaN
                   /\ day.trade_count
                        = Cardinality(TradesOn(day.sentiment_class[1], day.date))
                   /\ day.trade_count >= 1
                   /\ \A j \in 1..Len(daily_trades[1]) :
                          (daily_trades[1][j].date = day.date
                           /\ daily_trades[1][j].sentiment_class = day.sentiment_class)
                          => j = k
        /\ { freq_stats[1][k].key : k \in 1..Len(freq_stats[1]) }
             = { df[1][i].sentiment_class[1] : i \in (1..Len(df[1])) \ Unclassified }
        /\ \A k \in 1..Len(freq_stats[1]) :
               LET row == freq_stats[1][k]
                   days == DailyOf(row.key)
               IN  /\ Cardinality(days) = Cardinality(DatesOf(row.key))
                   /\ \A d \in days : row.Min <= daily_trades[1][d].trade_count
                                      /\ daily_trades[1][d].trade_count <= row.Max
                   /\ \E d \in days : row.Min = daily_trades[1][d].trade_count
                   /\ \E d \in days : row.Max = daily_trades[1][d].trade_count
                   /\ row.Avg_Daily_Trades # NaN
                   /\ Nearest(row.Avg_Daily_Trades[1], 100 * CountOver(days),
                              Cardinality(days))
                   /\ row.Min >= 1
                   /\ 100 * row.Min <= row.Avg_Daily_Trades[1]
                   /\ row.Avg_Daily_Trades[1] <= 100 * row.Max

\* A class with one trade on one day and two on another: two per-day counts
\* for three trades, Min 1, mean 1.5, Max 2
C13_Witness ==
    /\ freq_stats # NaN
    /\ \E k \in 1..Len(freq_stats[1]) :
           /\ freq_stats[1][k].Min = 1
           /\ freq_stats[1][k].Max = 2
           /\ freq_stats[1][k].Avg_Daily_Trades = <<150>>
           /\ freq_stats[1][k].Std = <<71>>
           /\ Cardinality(DailyOf(freq_stats[1][k].key)) = 2
           /\ Cardinality(ClassMembers(freq_stats[1][k].key)) = 3

-----------------------------------------------------------------------------
(* Properties of the rankings *)

\* The place of a bucket in the order Extreme Fear, Fear, Neutral, Greed,
\* Extreme Greed, by either set of labels
BucketPlace(label) ==
    CHOOSE k \in 1..Len(RangeLabels) : label \in {RangeLabels[k], TraderRangeLabels[k]}

\* The trades InsightsGenerator holds in a bucket
InsightMembers(b) ==
    { i \in 1..Len(insights_df[1]) : insights_df[1][i].sentiment_range = <<b>> }

\* Bucket b has at least the win rate of bucket c: wins(b) / n(b) >= wins(c) / n(c)
WinRateAtLeast(b, c) ==
    LET wins(x) == Cardinality({ i \in InsightMembers(x) : insights_df[1][i].is_win })
    IN  /\ InsightMembers(b) # {}
        /\ wins(b) * Cardinality(InsightMembers(c)) >= wins(c) * Cardinality(InsightMembers(b))

\* C14: best_worst_conditions returns the groups with non-increasing Win_Rate
\* and groups of equal Win_Rate in the bucket order; the bucket reported for
\* the highest win rate by identify_optimal_conditions is the first in the
\* bucket order among those with the greatest win rate.
C14_TiesInBucketOrder ==
    /\ perf # NaN =>
          \A i, j \in 1..Len(perf[1]) : i < j =>
              /\ (perf[1][i].Win_Rate # NaN /\ perf[1][j].Win_Rate # NaN)
                     => perf[1][i].Win_Rate[1] >= perf[1][j].Win_Rate[1]
              /\ perf[1][i].Win_Rate = perf[1][j].Win_Rate
                     => BucketPlace(perf[1][i].key) < BucketPlace(perf[1][j].key)
    /\ insights # <<>> =>
          \A k \in 1..Len(RangeLabels) :
              WinRateAtLeast(RangeLabels[k], insights[1].conditions)
                  => BucketPlace(insights[1].conditions) <= k

-----------------------------------------------------------------------------
(* Properties of the three classifications *)

\* TraderAnalyzer, InsightsGenerator and EDAAnalyzer have all assigned
\* sentiment_range to the rows of the same merged dataset
AllClassified ==
    /\ df # NaN
    /\ has_range
    /\ insights_df # NaN
    /\ eda_df # NaN

\* C15: win_rate_by_sentiment, InsightsGenerator.load_data and
\* EDAAnalyzer.load_data give every trade the same sentiment_range, bucket
\* and label alike.
C15_SameBucketSameLabel ==
    AllClassified =>
        \A i \in 1..Len(df[1]) :
            /\ df[1][i].sentiment_range = insights_df[1][i].sentiment_range
            /\ insights_df[1][i].sentiment_range = eda_df[1][i].sentiment_range

-----------------------------------------------------------------------------
(* Properties of the table computations taken together *)

\* C16: after load_data, whichever table computations have run and in
\* whichever order, the dataset held by TraderAnalyzer is still the merged
\* dataset it read, every table returned is the table of that dataset, and
\* best_worst_conditions has not failed.
C16_TablesOnlyRead ==
    df # NaN =>
        /\ Val(df) = ReadMerged(output)
        /\ perf_error = "none"
        /\ sentiment_groups # NaN => Val(sentiment_groups) = ClassTable(ReadMerged(output))
        /\ sizing # NaN => Val(sizing) = SizingTable(ReadMerged(output))
        /\ direction # NaN => Val(direction) = DirectionTable(ReadMerged(output))
        /\ freq_stats # NaN => Val(freq_stats) = FreqTable(DailyTrades(ReadMerged(output)))
        /\ pnl_stats # NaN => Val(pnl_stats) = DescribeTable(ReadMerged(output))

-----------------------------------------------------------------------------
(* Properties of calculate_derived_metrics as a function *)

\* The trade records as load_btc_transactions returned them
LoadedRecords == ParseBtc(FilterCoin(historical.rows))

\* C17: after calculate_derived_metrics the trade records that were passed
\* to it are as they were loaded, the table returned is the derivation of
\* those records, and deriving the returned table again changes nothing.
C17_DeriveLeavesInputUnchanged ==
    passed_df # NaN =>
        /\ Val(passed_df) = LoadedRecords
        /\ pc \in {"derived", "merged", "done"} =>
               /\ btc_df = DeriveMetrics(LoadedRecords)
               /\ DeriveMetrics(btc_df) = btc_df

====
